---- MODULE Spec2Model ----
(***************************************************************************)
(* Model of the PredictMe agent SDK trading core:                          *)
(*   lib/nonce.js       NonceManager   (sequence store)                    *)
(*   lib/commentary.js  validate / renderTemplate                          *)
(*   lib/strategy.js    pickGrid and the built-in strategies               *)
(*   lib/api.js         PredictMeAgent.placeBet / pickAndBet               *)
(*   lib/http.js        request (the shapes of its rejections)             *)
(* Strings are sequences of one-character strings.  JavaScript runs each   *)
(* async function without interruption up to its next await, so an action  *)
(* is the code between two network round-trips.                            *)
(***************************************************************************)
EXTENDS Integers, Sequences, FiniteSets, TLC

VARIABLES value, file, instance, hasKey, nmlog, calls, lastSent, maxOk, ncalls,
          libcall

vars == <<value, file, instance, hasKey, nmlog, calls, lastSent, maxOk, ncalls, libcall>>

agentVars == <<hasKey, calls, lastSent, maxOk, ncalls, libcall>>

----------------------------------------------------------------------------
(* Bounds of the model *)

\* Date.now() readings are drawn from MinClock..MaxClock
MinClock == 2
MaxClock == 3
\* a conflict response declares expectedNonce in 0..MaxExpected
MaxExpected == 3
\* values passed to NonceManager.set by the direct driver: 0..MaxSet
MaxSet == 2
\* number of direct NonceManager operations on one manager instance
MaxOps == 4
\* number of NonceManager instances created on the one path
MaxInstances == 2
\* number of placeBet/pickAndBet calls made on one agent instance
MaxCalls == 2

----------------------------------------------------------------------------
(* JavaScript values and strings *)

\* An optional value is a sequence of length at most one: null, undefined,
\* NaN and a missing file are the empty sequence; Some(x) holds the value x.
Null == <<>>
NaN == <<>>
NoFile == <<>>
Some(x) == <<x>>
Get(o) == o[1]

Clock == MinClock..MaxClock

\* the readings Date.now() can give to load() on a manager holding v: the
\* clock is read only when _value is null
Reads(v) == IF v = Null THEN Clock ELSE {0}

Min(a, b) == IF a < b THEN a ELSE b

IsWs(c) == c \in {" ", "\n", "\t"}

MinOf(S) == CHOOSE i \in S : \A j \in S : i <= j

MaxOf(S) == CHOOSE i \in S : \A j \in S : i >= j

\* s between the first and the last of the positions nz, '' if there is none
Between(s, nz) == IF nz = {} THEN <<>> ELSE SubSeq(s, MinOf(nz), MaxOf(nz))

\* String.prototype.trim
Trim(s) == Between(s, {i \in 1..Len(s) : ~IsWs(s[i])})

\* String.prototype.substring(0, n)
Substring0(s, n) == SubSeq(s, 1, Min(Len(s), n))

Digits == <<"0", "1", "2", "3", "4", "5", "6", "7", "8", "9">>

IsDigit(c) == \E d \in 1..10 : Digits[d] = c

DigitVal(c) == (CHOOSE d \in 1..10 : Digits[d] = c) - 1

RECURSIVE NatToStr(_)
NatToStr(n) ==
  IF n < 10 THEN <<Digits[n + 1]>>
  ELSE NatToStr(n \div 10) \o <<Digits[(n % 10) + 1]>>

\* String(number) for an integer
ToStr(n) == IF n < 0 THEN <<"-">> \o NatToStr(0 - n) ELSE NatToStr(n)

RECURSIVE DigitsVal(_, _)
\* value of the longest digit prefix of s, acc being the value read so far
DigitsVal(s, acc) ==
  IF s = <<>> \/ ~IsDigit(Head(s)) THEN acc
  ELSE DigitsVal(Tail(s), acc * 10 + DigitVal(Head(s)))

\* the number written by the longest digit prefix of u, NaN if it is empty
ParseDigits(u) == IF u = <<>> \/ ~IsDigit(Head(u)) THEN NaN ELSE Some(DigitsVal(u, 0))

Negate(o) == IF o = NaN THEN NaN ELSE Some(0 - Get(o))

\* parseInt of a string without leading blanks: optional sign, then digits
ParseSigned(t) ==
  IF t = <<>> THEN NaN
  ELSE IF Head(t) = "-" THEN Negate(ParseDigits(Tail(t)))
  ELSE IF Head(t) = "+" THEN ParseDigits(Tail(t))
  ELSE ParseDigits(t)

\* parseInt(s, 10)
ParseInt(s) == ParseSigned(Trim(s))

\* JavaScript truthiness of an optional number: NaN and 0 are falsy
Truthy(x) == x # NaN /\ x # Some(0)

\* parsed || now
OrNow(parsed, now) == IF Truthy(parsed) THEN Get(parsed) ELSE now

----------------------------------------------------------------------------
(* lib/nonce.js: NonceManager.  The manager is the pair (value, file):     *)
(* value is this._value (Null or Some(n)), file the nonce file (NoFile or  *)
(* Some(text)).  The operators work on the number held by the manager.     *)

\* outcomes of fs.writeFileSync: written, or thrown leaving the file as it was
WriteOutcomes == {"ok", "fail"}

\* load(): the value load() returns and leaves in _value
load(v, f, now) ==
  IF v # Null THEN Get(v)
  ELSE IF f = NoFile THEN now
  ELSE OrNow(ParseInt(Trim(Get(f))), now)

\* _save(): the file after trying to write v; a failure is swallowed
save(v, f, w) ==
  IF w = "ok" THEN Some(ToStr(v)) ELSE f

\* the manager after _value = n and _save(); ret is the value returned
store(n, f, w) == [value |-> Some(n), file |-> save(n, f, w), ret |-> n]

\* next() forgetting the value when it cannot be written
next_lostOnFailure(v, f, now, w) ==
  IF w = "ok" THEN store(load(v, f, now) + 1, f, w)
  ELSE [value |-> v, file |-> f, ret |-> load(v, f, now) + 1]

\* next() that does not count
next_noIncrement(v, f, now, w) == store(load(v, f, now), f, w)

\* next(): the manager after next()
next(v, f, now, w) == store(load(v, f, now) + 1, f, w)

\* set(x)
set(x, f, w) == store(x, f, w)

----------------------------------------------------------------------------
(* lib/commentary.js *)

MIN_LENGTH == 20
MAX_LENGTH == 500

\* !x for an optional string: undefined, null and '' are falsy
Falsy(o) == o = Null \/ Get(o) = <<>>

Required == [valid |-> FALSE, error |-> "Commentary is required", len |-> 0]

\* validate refusing a text of exactly MIN_LENGTH characters
validateTrimmed_strict(trimmed) ==
  IF trimmed = <<>> THEN Required
  ELSE IF Len(trimmed) <= MIN_LENGTH
  THEN [valid |-> FALSE, error |-> "Commentary too short", len |-> Len(trimmed)]
  ELSE [valid |-> TRUE, error |-> "", len |-> Len(trimmed)]

\* validate from commentary.trim() on
validateTrimmed(trimmed) ==
  IF trimmed = <<>> THEN Required
  ELSE IF Len(trimmed) < MIN_LENGTH
  THEN [valid |-> FALSE, error |-> "Commentary too short", len |-> Len(trimmed)]
  ELSE [valid |-> TRUE, error |-> "", len |-> Len(trimmed)]

\* validate(commentary): commentary is Null (undefined) or Some(text); len
\* is the length the error message reports
validate(commentary) ==
  IF Falsy(commentary) THEN Required ELSE validateTrimmed(Trim(Get(commentary)))

RECURSIVE ReplaceAll(_, _, _)

\* s with its first pat, which is at the least of the positions at, replaced
\* by rep, and the pats after it replaced as well; s if there is none
ReplaceAt(s, pat, rep, at) ==
  IF at = {} THEN s
  ELSE SubSeq(s, 1, MinOf(at) - 1) \o rep
       \o ReplaceAll(SubSeq(s, MinOf(at) + Len(pat), Len(s)), pat, rep)

\* s.replace(/pat/g, rep) for a literal pattern: leftmost matches, not
\* overlapping, the replacement is not scanned again
ReplaceAll(s, pat, rep) ==
  ReplaceAt(s, pat, rep, {i \in 1..(Len(s) - Len(pat) + 1) : SubSeq(s, i, i + Len(pat) - 1) = pat})

Marker(name) == <<"{">> \o name \o <<"}">>

T_round == <<"r", "o", "u", "n", "d">>
T_price == <<"p", "r", "i", "c", "e">>
T_asset == <<"a", "s", "s", "e", "t">>
T_odds == <<"o", "d", "d", "s">>
T_gridLevel == <<"g", "r", "i", "d", "L", "e", "v", "e", "l">>
T_strategy == <<"s", "t", "r", "a", "t", "e", "g", "y">>

\* context.x || '?'
OrQ(o) == IF Falsy(o) THEN <<"?">> ELSE Get(o)

\* renderTemplate(template, context): template is Null or Some(text), the
\* context a record of optional strings
renderTemplate(template, context) ==
  IF Falsy(template) THEN <<>>
  ELSE Substring0(
         ReplaceAll(
           ReplaceAll(
             ReplaceAll(
               ReplaceAll(
                 ReplaceAll(
                   ReplaceAll(Get(template), Marker(T_round), OrQ(context.round)),
                   Marker(T_price), OrQ(context.price)),
                 Marker(T_asset), OrQ(context.asset)),
               Marker(T_odds), OrQ(context.odds)),
             Marker(T_gridLevel), OrQ(context.gridLevel)),
           Marker(T_strategy), OrQ(context.strategy)),
         MAX_LENGTH)

----------------------------------------------------------------------------
(* lib/strategy.js.  A grid is a record of strings                         *)
(*   [gridIdStr, strikePriceMin, strikePriceMax, odds, impliedProbability] *)
(* parseFloat is modelled on decimal strings with at most two fraction     *)
(* digits; its result is the number in hundredths.                         *)

RECURSIVE IndexOf(_, _, _)
\* first position of character c in s at or after i, 0 if none
IndexOf(s, c, i) ==
  IF i > Len(s) THEN 0 ELSE IF s[i] = c THEN i ELSE IndexOf(s, c, i + 1)

\* the first two fraction digits fp starts with, as a number of hundredths
Frac2(fp) ==
  IF Len(fp) >= 1 /\ IsDigit(fp[1])
  THEN DigitVal(fp[1]) * 10 + (IF Len(fp) >= 2 /\ IsDigit(fp[2]) THEN DigitVal(fp[2]) ELSE 0)
  ELSE 0

\* the hundredths written by t, whose decimal point is at dot (0 for none)
Hundredths(t, dot) ==
  IF dot = 0 THEN DigitsVal(t, 0) * 100
  ELSE DigitsVal(SubSeq(t, 1, dot - 1), 0) * 100 + Frac2(SubSeq(t, dot + 1, Len(t)))

\* parseFloat of a string without leading blanks
ParseUnsigned(t) ==
  IF t = <<>> \/ ~IsDigit(t[1]) THEN NaN ELSE Some(Hundredths(t, IndexOf(t, ".", 1)))

\* parseFloat(s), in hundredths; NaN when s does not start with a digit
ParseFloat(s) == ParseUnsigned(Trim(s))

Abs(x) == IF x < 0 THEN 0 - x ELSE x

\* a < b on optional numbers: any comparison with NaN is false
Lt(a, b) == a # NaN /\ b # NaN /\ Get(a) < Get(b)

\* f applied to optional numbers, NaN if either is NaN
Diff50(p) == IF p = NaN THEN NaN ELSE Some(Abs(Get(p) - 50))

RECURSIVE ReduceMin(_, _, _)
\* grids.reduce((best, g) => key(g) < key(best) ? g : best, grids[0]) from
\* index i on, keys being the keys of the grids: the index of the grid kept
ReduceMin(keys, best, i) ==
  IF i > Len(keys) THEN best
  ELSE ReduceMin(keys, IF Lt(keys[i], keys[best]) THEN i ELSE best, i + 1)

RECURSIVE ReduceMax_lastWins(_, _, _)
\* reduce keeping the later grid when two have the same key
ReduceMax_lastWins(keys, best, i) ==
  IF i > Len(keys) THEN best
  ELSE ReduceMax_lastWins(keys, IF Lt(keys[i], keys[best]) THEN best ELSE i, i + 1)

RECURSIVE ReduceMax(_, _, _)
\* grids.reduce((best, g) => key(g) > key(best) ? g : best, grids[0])
ReduceMax(keys, best, i) ==
  IF i > Len(keys) THEN best
  ELSE ReduceMax(keys, IF Lt(keys[best], keys[i]) THEN i ELSE best, i + 1)

\* balanced looking at impliedProbability itself, not at its distance to 0.5
balanced_smallest(grids, currentPrice) ==
  ReduceMin([i \in 1..Len(grids) |-> ParseFloat(grids[i].impliedProbability)], 1, 1)

balanced(grids, currentPrice) ==
  ReduceMin([i \in 1..Len(grids) |-> Diff50(ParseFloat(grids[i].impliedProbability))], 1, 1)

underdog(grids, currentPrice) ==
  ReduceMax([i \in 1..Len(grids) |-> ParseFloat(grids[i].odds)], 1, 1)

\* |mid - price| with mid = (min + max) / 2, doubled to stay in integers
MidDist(min, max, price) ==
  IF min = NaN \/ max = NaN \/ price = NaN THEN NaN
  ELSE Some(Abs(Get(min) + Get(max) - 2 * Get(price)))

\* parseFloat(currentPrice), NaN for undefined
Price(currentPrice) == IF currentPrice = Null THEN NaN ELSE ParseFloat(Get(currentPrice))

favorite(grids, currentPrice) ==
  ReduceMin([i \in 1..Len(grids) |->
               MidDist(ParseFloat(grids[i].strikePriceMin),
                       ParseFloat(grids[i].strikePriceMax), Price(currentPrice))], 1, 1)

\* a * b on optional numbers
Times(a, b) == IF a = NaN \/ b = NaN THEN NaN ELSE Some(Get(a) * Get(b))

\* odds * impliedProbability, in ten-thousandths
Ev(g) == Times(ParseFloat(g.odds), ParseFloat(g.impliedProbability))

value_(grids, currentPrice) ==
  ReduceMax([i \in 1..Len(grids) |-> Ev(grids[i])], 1, 1)

S_balanced == <<"b", "a", "l", "a", "n", "c", "e", "d">>
S_underdog == <<"u", "n", "d", "e", "r", "d", "o", "g">>
S_favorite == <<"f", "a", "v", "o", "r", "i", "t", "e">>
S_value == <<"v", "a", "l", "u", "e">>
S_custom == <<"c", "u", "s", "t", "o", "m">>

S_constructor == <<"c", "o", "n", "s", "t", "r", "u", "c", "t", "o", "r">>

\* Object.keys(strategies)
StrategyKeys == <<S_balanced, S_underdog, S_favorite, S_value>>

StrategyNames == {StrategyKeys[i] : i \in DOMAIN StrategyKeys}

\* names that strategies[name] finds on Object.prototype, the strategies
\* object being an object literal: the model has the one whose value is a
\* function that returns without throwing, Object
InheritedNames == {S_constructor}

\* A strategy argument is [fn |-> FALSE, id |-> name] for a string and
\* [fn |-> TRUE, id |-> f] for a caller-supplied function f.
Named(name) == [fn |-> FALSE, id |-> name]
Custom(f) == [fn |-> TRUE, id |-> f]

\* The caller-supplied functions of the model:
\*  "first2x"   (grids, price) => grids.find(g => parseFloat(g.odds) > 2.0) || grids[0]
\*  "undefined" (grids, price) => undefined
\* The result is the index of the grid returned, 0 for undefined.
FirstOr1(hit) == IF hit = {} THEN 1 ELSE MinOf(hit)

CallCustom(f, grids, currentPrice) ==
  IF f = "first2x"
  THEN FirstOr1({i \in 1..Len(grids) : Lt(Some(200), ParseFloat(grids[i].odds))})
  ELSE 0

\* what pickGrid does: throw err (available being the names the message
\* lists), return grids[idx], return undefined (idx = 0), or return a
\* value that is not a grid (other)
Pick(err, available, idx, other) ==
  [err |-> err, available |-> available, idx |-> idx, other |-> other]

\* fn(grids, currentPrice) for the function fn found under name
CallNamed(name, grids, currentPrice) ==
  CASE name = S_balanced -> Pick("", <<>>, balanced(grids, currentPrice), FALSE)
    [] name = S_underdog -> Pick("", <<>>, underdog(grids, currentPrice), FALSE)
    [] name = S_favorite -> Pick("", <<>>, favorite(grids, currentPrice), FALSE)
    [] name = S_value -> Pick("", <<>>, value_(grids, currentPrice), FALSE)
    \* Object(grids, currentPrice) returns the array grids itself
    [] name = S_constructor -> Pick("", <<>>, 0, TRUE)

\* pickGrid(grids, currentPrice, strategy): grids is Null or Some(list)
pickGrid(grids, currentPrice, strategy) ==
  IF grids = Null \/ Get(grids) = <<>> THEN Pick("No grids available", <<>>, 0, FALSE)
  ELSE IF strategy.fn
  THEN Pick("", <<>>, CallCustom(strategy.id, Get(grids), currentPrice), FALSE)
  ELSE IF strategy.id \notin StrategyNames \cup InheritedNames
  THEN Pick("Unknown strategy", StrategyKeys, 0, FALSE)
  ELSE CallNamed(strategy.id, Get(grids), currentPrice)

----------------------------------------------------------------------------
(* Direct use of one NonceManager, as a test or the CLI would drive it.    *)
(* nmlog is the list of operations made on the current manager instance.   *)

\* what _save() lets its caller or the console see of a write that ended
\* as w: the catch block is empty and nothing is returned, so nothing
Reports(w) == <<>>

\* op with argument arg returned ret; now is the clock reading it was given
\* (0 when it reads none), wrote whether its write succeeded, before the
\* file it found, reports what the operation logged or reported
LogEntry(op, arg, ret, now, w, before) ==
  [op |-> op, arg |-> arg, ret |-> ret, now |-> now, wrote |-> (w = "ok"),
   before |-> before, reports |-> Reports(w)]

NMLoad ==
  /\ Len(nmlog) < MaxOps
  /\ \E now \in Reads(value) :
       /\ value' = Some(load(value, file, now))
       /\ nmlog' = Append(nmlog, LogEntry("load", Null, Some(load(value, file, now)), now, "none", file))
  /\ UNCHANGED <<file, instance, agentVars>>

\* the manager and its log after an operation that left it as r
Logged(r, entry) ==
  /\ value' = r.value
  /\ file' = r.file
  /\ nmlog' = Append(nmlog, entry)

NMNext ==
  /\ Len(nmlog) < MaxOps
  /\ \E now \in Reads(value), w \in WriteOutcomes :
       Logged(next(value, file, now, w),
              LogEntry("next", Null, Some(next(value, file, now, w).ret), now, w, file))
  /\ UNCHANGED <<instance, agentVars>>

NMSet ==
  /\ Len(nmlog) < MaxOps
  /\ \E x \in 0..MaxSet, w \in WriteOutcomes :
       Logged(set(x, file, w), LogEntry("set", Some(x), Null, 0, w, file))
  /\ UNCHANGED <<instance, agentVars>>

\* new NonceManager(filePath) on the same path: the constructor
NMNew ==
  /\ instance < MaxInstances
  /\ value' = Null
  /\ nmlog' = <<>>
  /\ instance' = instance + 1
  /\ UNCHANGED <<file, agentVars>>

----------------------------------------------------------------------------
(* lib/http.js: what request() settles with.  A response is               *)
(*   kind "ok"         resolved with the parsed JSON                       *)
(*   kind "http"       status >= 400: rejected with err.body = the JSON,   *)
(*                     expectedNonce being Null when the body has none     *)
(*   kind "transport"  socket error or unparsable body: rejected, no body  *)

BetResponses ==
  {[kind |-> "ok", expectedNonce |-> Null],
   [kind |-> "transport", expectedNonce |-> Null]}
  \cup {[kind |-> "http", expectedNonce |-> e] :
          e \in {Null} \cup {Some(n) : n \in 0..MaxExpected}}

Txt_BTC == <<"B", "T", "C">>

\* expiryAt is written as the seconds from the fetch to the expiry
Grid1 ==
  [gridIdStr |-> <<"B", "T", "C", "_", "7", "_", "2">>,
   strikePriceMin |-> <<"1", "0", "0">>, strikePriceMax |-> <<"1", "1", "0">>,
   odds |-> <<"1", ".", "8", "0">>, impliedProbability |-> <<"0", ".", "5", "0">>,
   expiryAt |-> 40]

Grid2 ==
  [gridIdStr |-> <<"B", "T", "C", "_", "7">>,
   strikePriceMin |-> <<"1", "1", "0">>, strikePriceMax |-> <<"1", "2", "0">>,
   odds |-> <<"2", ".", "5", "0">>, impliedProbability |-> <<"0", ".", "3", "5">>,
   expiryAt |-> 10]

\* GET /odds/:asset settles with data.grids and data.currentPrice (either
\* may be missing) or is rejected
OddsResponses ==
  {[kind |-> "ok", grids |-> Some(<<Grid1, Grid2>>), currentPrice |-> Some(<<"1", "0", "4">>)],
   [kind |-> "ok", grids |-> Some(<<>>), currentPrice |-> Some(<<"1", "0", "4">>)],
   [kind |-> "ok", grids |-> Null, currentPrice |-> Null],
   [kind |-> "http", grids |-> Null, currentPrice |-> Null]}

----------------------------------------------------------------------------
(* lib/api.js: PredictMeAgent.  calls[p] is the activation of placeBet or  *)
(* pickAndBet that caller p has in progress:                               *)
(*   pc      "idle", "odds" (awaiting getOdds), "bet1" (awaiting the first *)
(*           POST /bet), "bet2" (awaiting the resubmission), "done"        *)
(*   args    the arguments of pickAndBet                                   *)
(*   pb      the arguments placeBet was entered with, Null before that     *)
(*   body    the request body object of placeBet                           *)
(*   sent    the requests put on the wire by this call, in order           *)
(*   resps   the responses received by this call, in order                 *)
(*   resets  the arguments of nonce.set() made by this call                *)
(*   picks   the number of times a strategy was invoked                    *)
(*   result  Null while running, then the value returned or error thrown  *)
(* lastSent is the token of the last POST /bet the instance put on the     *)
(* wire, maxOk the greatest token of a POST /bet that was answered with    *)
(* success; ncalls counts the calls made.                                  *)

Procs == {1, 2}

Rep(c, n) == [i \in 1..n |-> c]

NoBody ==
  [gridId |-> <<>>, amount |-> <<>>, balanceType |-> "", nonce |-> 0,
   commentary |-> <<>>, strategy |-> Null]

NoArgs ==
  [asset |-> <<>>, gridId |-> <<>>, amount |-> <<>>, balanceType |-> "",
   commentary |-> Null, strategy |-> Named(<<>>), round |-> Null,
   timeSlot |-> Null, expiryRange |-> Null]

NoCall ==
  [pc |-> "idle", op |-> "", args |-> NoArgs, pb |-> Null, body |-> NoBody,
   sent |-> <<>>, resps |-> <<>>, resets |-> <<>>, picks |-> 0, result |-> Null]

Returned(res) == Some([ok |-> TRUE, error |-> "", resp |-> res])

\* an Error thrown locally (message) or the rejection of request() (resp)
Thrown(message, resp) == Some([ok |-> FALSE, error |-> message, resp |-> resp])

NoResp == [kind |-> "", expectedNonce |-> Null]

\* the part of an odds response an error object carries
AsError(r) == [kind |-> r.kind, expectedNonce |-> Null]

\* a response as listed in resps: ngrids is the length of data.grids in an
\* odds response, Null when it has none
BetResp(r) == [path |-> "/bet", kind |-> r.kind, expectedNonce |-> r.expectedNonce, ngrids |-> Null]

OddsResp(r) ==
  [path |-> "/odds", kind |-> r.kind, expectedNonce |-> Null,
   ngrids |-> IF r.grids = Null THEN Null ELSE Some(Len(Get(r.grids)))]

BetRequest(body) == [path |-> "/bet", body |-> body]

OddsRequest(asset) == [path |-> "/odds", body |-> [NoBody EXCEPT !.gridId = asset]]

\* what a stretch of a call leaves: the call record, the manager, and the
\* token put on the wire (Null for none)
Outcome(c, v, f, token) == [call |-> c, value |-> v, file |-> f, token |-> token]

\* the call ends by throwing result
Throw(c, result, v, f) == Outcome([c EXCEPT !.pc = "done", !.result = result], v, f, Null)

\* the call record on entry to placeBet with arguments a
Entered(c, a) == [c EXCEPT !.pb = Some(a)]

\* the body object placeBet builds
Body(a, nonce) ==
  [gridId |-> a.gridId, amount |-> a.amount, balanceType |-> a.balanceType,
   nonce |-> nonce, commentary |-> Substring0(Get(a.commentary), 500),
   strategy |-> IF Falsy(a.strategy) THEN Null ELSE a.strategy]

\* this._post('/bet', body, true) up to its await, the manager being as
\* next() left it (r): _auth throws inside the try and the catch rethrows
post(c, body, r, key) ==
  IF ~key
  THEN Throw([c EXCEPT !.body = body], Thrown("API key required", NoResp), r.value, r.file)
  ELSE Outcome([c EXCEPT !.pc = "bet1", !.body = body, !.sent = Append(@, BetRequest(body))],
               r.value, r.file, Some(r.ret))

\* placeBet checking the balance type after it has taken the nonce and sent
placeBet_realLate(c, a, v, f, key, now, w) ==
  IF ~validate(a.commentary).valid
  THEN Throw(Entered(c, a), Thrown(validate(a.commentary).error, NoResp), v, f)
  ELSE IF a.balanceType = "REAL"
  THEN Throw([Entered(c, a) EXCEPT !.sent = Append(@, BetRequest(Body(a, next(v, f, now, w).ret)))],
             Thrown("Agents cannot use REAL balance", NoResp),
             next(v, f, now, w).value, next(v, f, now, w).file)
  ELSE post(Entered(c, a), Body(a, next(v, f, now, w).ret), next(v, f, now, w), key)

\* placeBet without the balance type check
placeBet_anyBalance(c, a, v, f, key, now, w) ==
  IF ~validate(a.commentary).valid
  THEN Throw(Entered(c, a), Thrown(validate(a.commentary).error, NoResp), v, f)
  ELSE post(Entered(c, a), Body(a, next(v, f, now, w).ret), next(v, f, now, w), key)

\* placeBet validating after it has taken the nonce and sent
placeBet_validateLate(c, a, v, f, key, now, w) ==
  IF a.balanceType = "REAL"
  THEN Throw(Entered(c, a), Thrown("Agents cannot use REAL balance", NoResp), v, f)
  ELSE IF ~validate(a.commentary).valid
  THEN Throw([Entered(c, a) EXCEPT !.sent = Append(@, BetRequest(NoBody))],
             Thrown(validate(a.commentary).error, NoResp), v, f)
  ELSE post(Entered(c, a), Body(a, next(v, f, now, w).ret), next(v, f, now, w), key)

\* placeBet({gridId, amount, balanceType, commentary, strategy}) up to its
\* first await, entered by call record c with the manager at (v, f)
placeBet(c, a, v, f, key, now, w) ==
  IF ~validate(a.commentary).valid
  THEN Throw(Entered(c, a), Thrown(validate(a.commentary).error, NoResp), v, f)
  ELSE IF a.balanceType = "REAL"
  THEN Throw(Entered(c, a), Thrown("Agents cannot use REAL balance", NoResp), v, f)
  ELSE post(Entered(c, a), Body(a, next(v, f, now, w).ret), next(v, f, now, w), key)

\* balanceType arguments: the two of PlaceBetParams, the one placeBet
\* refuses, and one more string that a JavaScript caller can pass
Balances == {"TEST", "BONUS", "REAL", "real"}

Text20 == Rep("a", MIN_LENGTH)

\* commentary arguments: undefined, blank, 19 and 20 characters inside
\* blanks, and a template that is 20 characters long once rendered with
\* an eight-letter strategy name
Commentaries ==
  {Null, Some(<<" ", " ">>), Some(<<" ">> \o Rep("a", MIN_LENGTH - 1) \o <<" ">>),
   Some(<<" ">> \o Text20), Some(Marker(T_strategy) \o Rep("a", MIN_LENGTH - 8))}

\* 20 characters after so many blanks that only 10 of them are among the
\* first 500 characters
PaddedText == Rep(" ", MAX_LENGTH - 10) \o Text20

PlaceBetArgs ==
  {[gridId |-> <<"g", "1">>, amount |-> <<"1", ".", "0", "0">>,
    balanceType |-> b, commentary |-> t, strategy |-> Null] :
     b \in Balances, t \in Commentaries}
  \cup {[gridId |-> <<"g", "1">>, amount |-> <<"1", ".", "0", "0">>,
          balanceType |-> "TEST", commentary |-> Some(PaddedText), strategy |-> Null]}

Strategies ==
  {Named(S_balanced), Named(<<"m", "o", "o", "n">>), Custom("first2x")}

\* the settlement windows of the README: timeSlot 'next' and 'far', and
\* expiryRange [30, 60]
Windows ==
  {[timeSlot |-> Some("next"), expiryRange |-> Null],
   [timeSlot |-> Some("far"), expiryRange |-> Null],
   [timeSlot |-> Null, expiryRange |-> Some(<<30, 60>>)]}

\* the arguments of pickAndBet; timeSlot and expiryRange are properties of
\* the argument object that its parameter list does not name
PickAndBetArgs ==
  {[asset |-> Txt_BTC, gridId |-> <<>>, amount |-> <<"1", ".", "0", "0">>,
    balanceType |-> b, commentary |-> t, strategy |-> st, round |-> Null,
    timeSlot |-> Null, expiryRange |-> Null] :
     b \in Balances, t \in Commentaries, st \in Strategies}
  \cup {[asset |-> Txt_BTC, gridId |-> <<>>, amount |-> <<"1", ".", "0", "0">>,
          balanceType |-> "TEST", commentary |-> Some(Text20), strategy |-> st, round |-> Null,
          timeSlot |-> win.timeSlot, expiryRange |-> win.expiryRange] :
           st \in {Named(S_balanced), Custom("first2x")}, win \in Windows}
  \cup {[asset |-> Txt_BTC, gridId |-> <<>>, amount |-> <<"1", ".", "0", "0">>,
          balanceType |-> "TEST", commentary |-> Some(PaddedText),
          strategy |-> Named(S_balanced), round |-> Null,
          timeSlot |-> Null, expiryRange |-> Null]}

Running(p) == calls[p].pc \notin {"idle", "done"}

\* the step of caller p that leaves its call and the manager as r says
Becomes(p, r) ==
  /\ calls' = [calls EXCEPT ![p] = r.call]
  /\ value' = r.value
  /\ file' = r.file
  /\ lastSent' = IF r.token = Null THEN lastSent ELSE r.token

\* agent.placeBet(a) called by p, for one of the arguments args
PlaceBetWith(p, args) ==
  /\ ~Running(p)
  /\ ncalls < MaxCalls
  /\ \E a \in args, now \in Reads(value), w \in WriteOutcomes :
       Becomes(p, placeBet([NoCall EXCEPT !.op = "placeBet"], a, value, file, hasKey, now, w))
  /\ ncalls' = ncalls + 1
  /\ UNCHANGED <<instance, hasKey, nmlog, libcall, maxOk>>

\* agent.placeBet(args) called by p
PlaceBet(p) == PlaceBetWith(p, PlaceBetArgs)

\* agent.pickAndBet(a) called by p, for one of the arguments args: up to
\* the await of getOdds
PickAndBetWith(p, args) ==
  /\ ~Running(p)
  /\ ncalls < MaxCalls
  /\ \E a \in args :
       calls' = [calls EXCEPT ![p] =
         IF ~hasKey
         THEN [NoCall EXCEPT !.op = "pickAndBet", !.args = a, !.pc = "done",
                             !.result = Thrown("API key required", NoResp)]
         ELSE [NoCall EXCEPT !.op = "pickAndBet", !.args = a, !.pc = "odds",
                             !.sent = <<OddsRequest(a.asset)>>]]
  /\ ncalls' = ncalls + 1
  /\ UNCHANGED <<value, file, instance, hasKey, nmlog, libcall, lastSent, maxOk>>

\* agent.pickAndBet(args) called by p
PickAndBet(p) == PickAndBetWith(p, PickAndBetArgs)

RECURSIVE Split(_, _)
\* s.split(sep)
Split(s, sep) ==
  IF IndexOf(s, sep, 1) = 0 THEN <<s>>
  ELSE <<SubSeq(s, 1, IndexOf(s, sep, 1) - 1)>>
         \o Split(SubSeq(s, IndexOf(s, sep, 1) + 1, Len(s)), sep)

\* gridParts.length >= 3 ? gridParts[2] : '0'
GridLevel(gridParts) == IF Len(gridParts) >= 3 THEN gridParts[3] ELSE <<"0">>

\* the context pickAndBet renders the commentary with
Context(a, currentPrice, chosen) ==
  [round |-> a.round, price |-> currentPrice, asset |-> Some(a.asset),
   odds |-> Some(chosen.odds),
   gridLevel |-> Some(GridLevel(Split(chosen.gridIdStr, "_"))),
   strategy |-> Some(IF a.strategy.fn THEN S_custom ELSE a.strategy.id)]

\* the arguments pickAndBet calls placeBet with
BetOn(a, currentPrice, chosen) ==
  [gridId |-> chosen.gridIdStr, amount |-> a.amount, balanceType |-> a.balanceType,
   commentary |-> Some(renderTemplate(a.commentary, Context(a, currentPrice, chosen))),
   strategy |-> IF a.strategy.fn THEN Null ELSE Some(a.strategy.id)]

\* the call record once the strategy has been invoked
Invoked(c) == [c EXCEPT !.picks = @ + 1]

\* what pickAndBet reads of a chosen value that is not a grid: every
\* property is undefined
NotAGrid ==
  [gridIdStr |-> <<>>, strikePriceMin |-> <<>>, strikePriceMax |-> <<>>,
   odds |-> <<>>, impliedProbability |-> <<>>]

\* pickAndBet from the return of pickGrid (pick) on
picked(c, grids, currentPrice, pick, v, f, key, now, w) ==
  IF pick.err # "" THEN Throw(c, Thrown(pick.err, NoResp), v, f)
  ELSE IF pick.other
  THEN placeBet(Invoked(c), BetOn(c.args, currentPrice, NotAGrid), v, f, key, now, w)
  ELSE IF pick.idx = 0 THEN Throw(Invoked(c), Thrown("TypeError", NoResp), v, f)
  ELSE placeBet(Invoked(c), BetOn(c.args, currentPrice, grids[pick.idx]), v, f, key, now, w)

\* pickAndBet taking the nonce before it looks at the grids
pickAndBet_nonceFirst(c, oddsRes, v, f, key, now, w) ==
  IF oddsRes.grids = Null \/ Get(oddsRes.grids) = <<>>
  THEN Throw(c, Thrown("No grids available for asset", NoResp),
             next(v, f, now, w).value, next(v, f, now, w).file)
  ELSE picked(c, Get(oddsRes.grids), oddsRes.currentPrice,
              pickGrid(oddsRes.grids, oddsRes.currentPrice, c.args.strategy),
              v, f, key, now, w)

\* pickAndBet from the resolution of getOdds to the first await of placeBet
pickAndBet(c, oddsRes, v, f, key, now, w) ==
  IF oddsRes.grids = Null \/ Get(oddsRes.grids) = <<>>
  THEN Throw(c, Thrown("No grids available for asset", NoResp), v, f)
  ELSE picked(c, Get(oddsRes.grids), oddsRes.currentPrice,
              pickGrid(oddsRes.grids, oddsRes.currentPrice, c.args.strategy),
              v, f, key, now, w)

\* the call record once response r has arrived
Answered(c, r) == [c EXCEPT !.resps = Append(@, r)]

\* pickAndBet fetching the grids again when the fetch is rejected
afterOdds_refetch(c, res, v, f, key, now, w) ==
  IF res.kind # "ok"
  THEN Outcome([c EXCEPT !.sent = Append(@, OddsRequest(c.args.asset))], v, f, Null)
  ELSE pickAndBet(c, res, v, f, key, now, w)

\* pickAndBet from the settling of getOdds on: a rejection is thrown as it is
afterOdds(c, res, v, f, key, now, w) ==
  IF res.kind # "ok" THEN Throw(c, Thrown("", AsError(res)), v, f)
  ELSE pickAndBet(c, res, v, f, key, now, w)

\* getOdds settles for the pickAndBet call of p
OddsResponse(p) ==
  /\ calls[p].pc = "odds"
  /\ \E res \in OddsResponses, now \in Reads(value), w \in WriteOutcomes :
       Becomes(p, afterOdds(Answered(calls[p], OddsResp(res)), res, value, file, hasKey, now, w))
  /\ UNCHANGED <<instance, hasKey, nmlog, libcall, maxOk, ncalls>>

\* r is a rejection that carries expectedNonce
Conflict(r) == r.kind = "http" /\ r.expectedNonce # Null

\* a resubmission that carries the commentary trimmed
resubmit_trimmed(c, e, r) ==
  Outcome([c EXCEPT !.pc = "bet2", !.body.nonce = r.ret, !.resets = @ \o e,
                    !.sent = Append(@, BetRequest([c.body EXCEPT !.nonce = r.ret,
                                                                 !.commentary = Trim(@)]))],
          r.value, r.file, Some(r.ret))

\* body.nonce = r.ret; return this._post('/bet', body, true), e being the
\* value set() was called with (none if e is empty)
resubmit(c, e, r) ==
  Outcome([c EXCEPT !.pc = "bet2", !.body.nonce = r.ret, !.resets = @ \o e,
                    !.sent = Append(@, BetRequest([c.body EXCEPT !.nonce = r.ret]))],
          r.value, r.file, Some(r.ret))

\* recover resubmitting the declared value itself, without next()
recover_sameToken(c, err, v, f, w1, w2) ==
  IF Conflict(err)
  THEN resubmit(c, err.expectedNonce, set(Get(err.expectedNonce), f, w1))
  ELSE Throw(c, Thrown("", err), v, f)

\* recover resubmitting after every HTTP rejection, with the next token
recover_anyHttp(c, err, v, f, w1, w2) ==
  IF Conflict(err)
  THEN resubmit(c, err.expectedNonce,
                next(set(Get(err.expectedNonce), f, w1).value,
                     set(Get(err.expectedNonce), f, w1).file, 0, w2))
  ELSE IF err.kind = "http"
  THEN resubmit(c, <<>>, next(v, f, 0, w2))
  ELSE Throw(c, Thrown("", err), v, f)

\* the catch block of placeBet, entered by call record c with error err
recover(c, err, v, f, w1, w2) ==
  IF Conflict(err)
  THEN resubmit(c, err.expectedNonce,
                next(set(Get(err.expectedNonce), f, w1).value,
                     set(Get(err.expectedNonce), f, w1).file, 0, w2))
  ELSE Throw(c, Thrown("", err), v, f)

\* placeBet giving its token back when the submission fails for good
afterBet_givesBack(c, res, v, f, w1, w2) ==
  IF res.kind = "ok" THEN Outcome([c EXCEPT !.pc = "done", !.result = Returned(res)], v, f, Null)
  ELSE IF Conflict(res) THEN recover(c, res, v, f, w1, w2)
  ELSE Throw(c, Thrown("", res), Some(Get(v) - 1), f)

\* placeBet from the settling of its first POST /bet on
afterBet(c, res, v, f, w1, w2) ==
  IF res.kind = "ok" THEN Outcome([c EXCEPT !.pc = "done", !.result = Returned(res)], v, f, Null)
  ELSE recover(c, res, v, f, w1, w2)

\* the greatest token the server has accepted, once res answers token n
Accept(res, n) ==
  IF res.kind = "ok" /\ (maxOk = Null \/ n > Get(maxOk)) THEN Some(n) ELSE maxOk

\* the first POST /bet of p settles
BetResponse(p) ==
  /\ calls[p].pc = "bet1"
  /\ \E res \in BetResponses, w1 \in WriteOutcomes, w2 \in WriteOutcomes :
       Becomes(p, afterBet(Answered(calls[p], BetResp(res)), res, value, file, w1, w2))
         /\ maxOk' = Accept(res, calls[p].body.nonce)
  /\ UNCHANGED <<instance, hasKey, nmlog, libcall, ncalls>>

\* the resubmission of p settles: returned by placeBet as it is
RetryResponse(p) ==
  /\ calls[p].pc = "bet2"
  /\ \E res \in BetResponses :
       /\ calls' = [calls EXCEPT ![p] =
            [Answered(@, BetResp(res)) EXCEPT
               !.pc = "done",
               !.result = IF res.kind = "ok" THEN Returned(res) ELSE Thrown("", res)]]
       /\ maxOk' = Accept(res, calls[p].body.nonce)
  /\ UNCHANGED <<value, file, instance, hasKey, nmlog, libcall, lastSent, ncalls>>

\* no exported function is being called directly
NoLibCall == [fn |-> "", arg |-> <<>>, done |-> TRUE, out |-> <<>>]

Init ==
  /\ value = Null
  /\ file = NoFile
  /\ instance = 1
  /\ hasKey \in BOOLEAN
  /\ nmlog = <<>>
  /\ calls = [p \in Procs |-> NoCall]
  /\ lastSent = Null
  /\ maxOk = Null
  /\ ncalls = 0
  /\ libcall = NoLibCall

NonceNext == NMLoad \/ NMNext \/ NMSet \/ NMNew

NonceSpec == Init /\ [][NonceNext]_vars

\* no call of the instance is between its start and its end
Quiet == \A q \in Procs : ~Running(q)

\* sequential use of one agent instance: a call starts when none is running
StartPlaceBet == Quiet /\ PlaceBet(1)

StartPickAndBet == Quiet /\ PickAndBet(1)

OddsSettles == \E p \in Procs : OddsResponse(p)

BetSettles == \E p \in Procs : BetResponse(p)

RetrySettles == \E p \in Procs : RetryResponse(p)

Next == StartPlaceBet \/ StartPickAndBet \/ OddsSettles \/ BetSettles \/ RetrySettles

Spec == Init /\ [][Next]_vars

\* Spec with every request in flight eventually settled: request() resolves
\* or rejects once the response, an error or a socket close arrives
LiveSpec ==
  /\ Spec
  /\ WF_vars(OddsSettles)
  /\ WF_vars(BetSettles)
  /\ WF_vars(RetrySettles)

\* the greatest score qualityScore returns: Math.min(100, score)
MAX_SCORE == 100

TECHNICAL_TERMS ==
  {<<"r", "s", "i">>,
   <<"m", "a", "c", "d">>,
   <<"e", "m", "a">>,
   <<"s", "m", "a">>,
   <<"b", "o", "l", "l", "i", "n", "g", "e", "r">>,
   <<"f", "i", "b", "o", "n", "a", "c", "c", "i">>,
   <<"f", "i", "b">>,
   <<"s", "u", "p", "p", "o", "r", "t">>,
   <<"r", "e", "s", "i", "s", "t", "a", "n", "c", "e">>,
   <<"b", "r", "e", "a", "k", "o", "u", "t">>,
   <<"b", "r", "e", "a", "k", "d", "o", "w", "n">>,
   <<"d", "i", "v", "e", "r", "g", "e", "n", "c", "e">>,
   <<"o", "v", "e", "r", "s", "o", "l", "d">>,
   <<"o", "v", "e", "r", "b", "o", "u", "g", "h", "t">>,
   <<"v", "o", "l", "u", "m", "e">>,
   <<"m", "o", "m", "e", "n", "t", "u", "m">>,
   <<"t", "r", "e", "n", "d">>,
   <<"b", "u", "l", "l", "i", "s", "h">>,
   <<"b", "e", "a", "r", "i", "s", "h">>,
   <<"c", "o", "n", "s", "o", "l", "i", "d", "a", "t", "i", "o", "n">>,
   <<"r", "e", "v", "e", "r", "s", "a", "l">>,
   <<"w", "e", "d", "g", "e">>,
   <<"c", "h", "a", "n", "n", "e", "l">>,
   <<"m", "o", "v", "i", "n", "g", " ", "a", "v", "e", "r", "a", "g", "e">>,
   <<"f", "u", "n", "d", "i", "n", "g", " ", "r", "a", "t", "e">>,
   <<"o", "p", "e", "n", " ", "i", "n", "t", "e", "r", "e", "s", "t">>,
   <<"l", "i", "q", "u", "i", "d", "a", "t", "i", "o", "n">>,
   <<"w", "h", "a", "l", "e">>,
   <<"a", "c", "c", "u", "m", "u", "l", "a", "t", "i", "o", "n">>,
   <<"d", "i", "s", "t", "r", "i", "b", "u", "t", "i", "o", "n">>}

UpperLetters == <<"A", "B", "C", "D", "E", "F", "G", "H", "I", "J", "K", "L", "M", "N", "O", "P", "Q", "R", "S", "T", "U", "V", "W", "X", "Y", "Z">>

LowerLetters == <<"a", "b", "c", "d", "e", "f", "g", "h", "i", "j", "k", "l", "m", "n", "o", "p", "q", "r", "s", "t", "u", "v", "w", "x", "y", "z">>

\* the position of c among the capital letters, 0 if it is not one
UpperIndex(c) ==
  IF \E i \in 1..26 : UpperLetters[i] = c
  THEN CHOOSE i \in 1..26 : UpperLetters[i] = c
  ELSE 0

LowerAt(c, i) == IF i = 0 THEN c ELSE LowerLetters[i]

\* String.prototype.toLowerCase
ToLowerCase(s) == [i \in 1..Len(s) |-> LowerAt(s[i], UpperIndex(s[i]))]

\* the word of s that starts at position i
WordAt(s, i) ==
  SubSeq(s, i, CHOOSE j \in i..Len(s) :
                 /\ j = Len(s) \/ IsWs(s[j + 1])
                 /\ \A m \in i..j : ~IsWs(s[m]))

\* new Set(s.split(/\s+/)): the words of s, and '' when s is empty or
\* starts or ends with a blank
Words(s) ==
  (IF s = <<>> \/ IsWs(s[1]) \/ IsWs(s[Len(s)]) THEN {<<>>} ELSE {})
  \cup {WordAt(s, i) : i \in {k \in 1..Len(s) : ~IsWs(s[k]) /\ (k = 1 \/ IsWs(s[k - 1]))}}

\* String.prototype.includes
Includes(s, term) ==
  \E i \in 1..(Len(s) - Len(term) + 1) : SubSeq(s, i, i + Len(term) - 1) = term

\* the length score of a text of n characters
LengthScore(n) ==
  IF n >= 200 THEN 50
  ELSE IF n >= 100 THEN 40
  ELSE IF n >= 60 THEN 30
  ELSE IF n >= 40 THEN 20
  ELSE 10

\* the unique words score giving 10 from fifteen words on
UniqueScore_low(unique) ==
  IF unique >= 25 THEN 25
  ELSE IF unique >= 15 THEN 10
  ELSE IF unique >= 10 THEN 10
  ELSE 0

\* the score of unique different words
UniqueScore(unique) ==
  IF unique >= 25 THEN 25
  ELSE IF unique >= 15 THEN 20
  ELSE IF unique >= 10 THEN 10
  ELSE 0

\* the score of termCount technical terms
TermScore(termCount) ==
  IF termCount >= 4 THEN 25
  ELSE IF termCount >= 2 THEN 15
  ELSE IF termCount >= 1 THEN 5
  ELSE 0

\* qualityScore from the trimmed text and its lower case on
scoreOf(text, lower) ==
  Min(MAX_SCORE,
      LengthScore(Len(text))
      + UniqueScore(Cardinality(Words(lower)))
      + TermScore(Cardinality({term \in TECHNICAL_TERMS : Includes(lower, term)})))

\* qualityScore(commentary)
qualityScore(commentary) ==
  IF Falsy(commentary) THEN 0
  ELSE scoreOf(Trim(Get(commentary)), ToLowerCase(Trim(Get(commentary))))


\* badgeTier with the Bronze threshold one too high
badgeTier_late(score) ==
  IF score >= 90 THEN Some("Diamond")
  ELSE IF score >= 75 THEN Some("Gold")
  ELSE IF score >= 60 THEN Some("Silver")
  ELSE IF score > 40 THEN Some("Bronze")
  ELSE Null

\* badgeTier(score): Null for null
badgeTier(score) ==
  IF score >= 90 THEN Some("Diamond")
  ELSE IF score >= 75 THEN Some("Gold")
  ELSE IF score >= 60 THEN Some("Silver")
  ELSE IF score >= 40 THEN Some("Bronze")
  ELSE Null

----------------------------------------------------------------------------
(* Direct calls of the functions the package exports (index.js): libcall   *)
(* is the call, [fn |-> the function, arg |-> its arguments, done |->      *)
(* whether it has returned or thrown, out |-> what it returned or threw].  *)

progVars == <<value, file, instance, hasKey, nmlog, calls, lastSent, maxOk, ncalls>>

\* a call of fn with arguments arg, not made yet
LibCall(fn, arg) == [fn |-> fn, arg |-> arg, done |-> FALSE, out |-> <<>>]

\* grids with ties: A and B are equally far from a probability of 0.5 and,
\* at a price of 100, from the price; A and C have the same odds x
\* probability; A and D the same odds
GridA ==
  [gridIdStr |-> <<"B", "T", "C", "_", "7", "_", "1">>,
   strikePriceMin |-> <<"1", "0", "0">>, strikePriceMax |-> <<"1", "1", "0">>,
   odds |-> <<"3", ".", "0", "0">>, impliedProbability |-> <<"0", ".", "3", "0">>]

GridB ==
  [gridIdStr |-> <<"B", "T", "C", "_", "7", "_", "0">>,
   strikePriceMin |-> <<"9", "0">>, strikePriceMax |-> <<"1", "0", "0">>,
   odds |-> <<"1", ".", "3", "0">>, impliedProbability |-> <<"0", ".", "7", "0">>]

GridC ==
  [gridIdStr |-> <<"B", "T", "C", "_", "7", "_", "3">>,
   strikePriceMin |-> <<"1", "2", "0">>, strikePriceMax |-> <<"1", "3", "0">>,
   odds |-> <<"1", ".", "8", "0">>, impliedProbability |-> <<"0", ".", "5">>]

GridD ==
  [gridIdStr |-> <<"B", "T", "C", "_", "7", "_", "4">>,
   strikePriceMin |-> <<"1", "3", "0">>, strikePriceMax |-> <<"1", "4", "0">>,
   odds |-> <<"3", ".", "0", "0">>, impliedProbability |-> <<"0", ".", "1", "0">>]

GridPool == {Grid1, GridA, GridB, GridC, GridD}

MaxGrids == 3

\* the lists of at most MaxGrids grids
GridLists == UNION {[1..n -> GridPool] : n \in 0..MaxGrids}

Prices == {Null, Some(<<"1", "0", "0">>), Some(<<"1", "0", "4", ".", "5">>)}

S_moon == <<"m", "o", "o", "n">>

StrategyArgs ==
  {Named(n) : n \in StrategyNames \cup {S_moon, S_constructor}} \cup {Custom("first2x")}

PickGridCalls ==
  {LibCall("pickGrid", [grids |-> Some(g), currentPrice |-> pr, strategy |-> st]) :
     g \in GridLists, pr \in Prices, st \in StrategyArgs}

\* the call made returns or throws out
Returns(out) ==
  /\ ~libcall.done
  /\ libcall' = [libcall EXCEPT !.done = TRUE, !.out = out]
  /\ UNCHANGED progVars

\* pickGrid(grids, currentPrice, strategy)
LibPickGrid ==
  /\ libcall.fn = "pickGrid"
  /\ Returns(pickGrid(libcall.arg.grids, libcall.arg.currentPrice, libcall.arg.strategy))

MaxPad == 2

\* the lengths of text tried around MIN_LENGTH and MAX_LENGTH
CoreLengths ==
  {0, 1, 7, MIN_LENGTH - 1, MIN_LENGTH, MIN_LENGTH + 1, MAX_LENGTH, MAX_LENGTH + 1}

\* a text of n characters that starts and ends with a letter and, from
\* three characters on, has a blank inside
Core(n) == [i \in 1..n |-> IF i = 2 /\ n >= 3 THEN " " ELSE "b"]

\* validate is called with undefined or with a text of core characters
\* between l and r blanks ws
ValidateCalls ==
  {LibCall("validate", [commentary |-> Null, core |-> 0])}
  \cup {LibCall("validate", [commentary |-> Some(Rep(ws, l) \o Core(n) \o Rep(ws, r)),
                             core |-> n]) :
          ws \in {" ", "\n", "\t"}, l \in 0..MaxPad, r \in 0..MaxPad, n \in CoreLengths}

\* validate(commentary)
LibValidate ==
  /\ libcall.fn = "validate"
  /\ Returns(validate(libcall.arg.commentary))

MaxParts == 3

T_foo == <<"f", "o", "o">>

Txt_at == <<" ", "a", "t", " ">>

\* the pieces templates are made of: the six markers, a marker that is not
\* one of them, and plain text
TemplateParts ==
  {Marker(T_round), Marker(T_price), Marker(T_asset), Marker(T_odds),
   Marker(T_gridLevel), Marker(T_strategy), Marker(T_foo), Txt_at}

\* plain text two characters short of MAX_LENGTH
LongText == Rep("x", MAX_LENGTH - 2)

\* templates as lists of pieces: up to MaxParts short pieces, or the long
\* text before or after one short piece
TemplatePieces ==
  UNION {[1..n -> TemplateParts] : n \in 0..MaxParts}
  \cup {<<LongText, q>> : q \in TemplateParts}
  \cup {<<q, LongText>> : q \in TemplateParts}

RECURSIVE Flatten(_)
\* the text made of the pieces ps
Flatten(ps) == IF ps = <<>> THEN <<>> ELSE Head(ps) \o Flatten(Tail(ps))

NoContext ==
  [round |-> Null, price |-> Null, asset |-> Null, odds |-> Null,
   gridLevel |-> Null, strategy |-> Null]

\* contexts: empty, the asset alone, every value, and a round label that
\* is itself written with braces
Contexts ==
  {NoContext,
   [NoContext EXCEPT !.asset = Some(Txt_BTC)],
   [round |-> Some(<<"7">>), price |-> Some(<<"1", "0", "4", ".", "5">>),
    asset |-> Some(Txt_BTC), odds |-> Some(<<"1", ".", "8", "0">>),
    gridLevel |-> Some(<<"2">>), strategy |-> Some(S_value)],
   [NoContext EXCEPT !.round = Some(Marker(T_price)), !.price = Some(<<"1", "0", "0">>)]}

RenderCalls ==
  {LibCall("renderTemplate", [template |-> Some(Flatten(ps)), pieces |-> ps, context |-> cx]) :
     ps \in TemplatePieces, cx \in Contexts}

\* renderTemplate(template, context)
LibRenderTemplate ==
  /\ libcall.fn = "renderTemplate"
  /\ Returns(renderTemplate(libcall.arg.template, libcall.arg.context))

MaxWords == 26

MaxTerms == 5

FillerLetters == <<"b", "c", "d", "g", "j", "q">>

\* the i-th of thirty-six different two-letter words, none of them part
\* of a technical term
Filler(i) == <<FillerLetters[((i - 1) \div 6) + 1], FillerLetters[((i - 1) % 6) + 1]>>

\* words that each contain exactly one technical term
TermWords ==
  <<<<"R", "S", "I">>, <<"m", "a", "c", "d">>, <<"s", "u", "p", "p", "o", "r", "t">>, <<"v", "o", "l", "u", "m", "e">>, <<"w", "h", "a", "l", "e">>, <<"W", "e", "d", "g", "e">>, <<"c", "h", "a", "n", "n", "e", "l">>>>

\* the numbers of times the repeated word is appended
Repeats == {0, 2, 5, 12, 24, 40}

\* the numbers of further repetitions in the longer text
Extras == {1, 20}

RECURSIVE Join(_)
\* the words ws with one blank between them
Join(ws) ==
  IF ws = <<>> THEN <<>>
  ELSE IF Len(ws) = 1 THEN ws[1]
  ELSE ws[1] \o <<" ">> \o Join(Tail(ws))

\* the word that makes a text longer
Repeated == <<"B", "B", "B", "B">>

\* the first u fillers, a blank after each
Fillers(u) ==
  [i \in 1..(3 * u) |-> IF i % 3 = 0 THEN " " ELSE Filler(((i - 1) \div 3) + 1)[i % 3]]

\* k times the repeated word, a blank after each
Repetitions(k) ==
  [i \in 1..(5 * k) |-> IF i % 5 = 0 THEN " " ELSE Repeated[i % 5]]

\* u different fillers, t words with a technical term, and k times the
\* repeated word, one blank between the words
ScoreText(u, t, k) ==
  Trim(Fillers(u) \o Join(SubSeq(TermWords, 1, t)) \o <<" ">> \o Repetitions(k))

\* qualityScore is called with such a text after pad blanks; longer is the
\* same text with more repetitions, unique the number of different words
\* of both
ScoreCalls ==
  {LibCall("qualityScore",
           [commentary |-> Some(Rep(" ", pad) \o ScoreText(u, t, k)),
            longer |-> Some(Rep(" ", pad) \o ScoreText(u, t, k + d)),
            length |-> Len(ScoreText(u, t, k)),
            unique |-> u + t + (IF k > 0 \/ u + t = 0 THEN 1 ELSE 0),
            terms |-> t,
            repeats |-> k]) :
     u \in 0..MaxWords, t \in 0..MaxTerms, k \in Repeats, d \in Extras, pad \in 0..1}

\* qualityScore(commentary) and qualityScore(longer)
LibQualityScore ==
  /\ libcall.fn = "qualityScore"
  /\ Returns([score |-> qualityScore(libcall.arg.commentary),
              longer |-> qualityScore(libcall.arg.longer)])

BadgeTierCalls == {LibCall("badgeTier", [score |-> n]) : n \in 0..MAX_SCORE}

\* badgeTier(score)
LibBadgeTier ==
  /\ libcall.fn = "badgeTier"
  /\ Returns(badgeTier(libcall.arg.score))

LibCalls == PickGridCalls \cup ValidateCalls \cup RenderCalls \cup ScoreCalls \cup BadgeTierCalls

LibInit ==
  /\ value = Null
  /\ file = NoFile
  /\ instance = 1
  /\ hasKey = FALSE
  /\ nmlog = <<>>
  /\ calls = [p \in Procs |-> NoCall]
  /\ lastSent = Null
  /\ maxOk = Null
  /\ ncalls = 0
  /\ libcall \in LibCalls

LibNext ==
  LibPickGrid \/ LibValidate \/ LibRenderTemplate \/ LibQualityScore \/ LibBadgeTier

LibSpec == LibInit /\ [][LibNext]_vars

----------------------------------------------------------------------------
(* Properties of placeBet / pickAndBet, checked under Spec *)

\* the POST /bet requests call record c has put on the wire
Bets(c) == SelectSeq(c.sent, LAMBDA q : q.path = "/bet")

\* the answers call record c has received to its POST /bet requests
BetAnswers(c) == SelectSeq(c.resps, LAMBDA r : r.path = "/bet")

\* the error object request() rejected with, as placeBet rethrows it
Rethrown(r) == Thrown("", [kind |-> r.kind, expectedNonce |-> r.expectedNonce])

\* p's submission in flight is answered with success in this step
Accepted(p) ==
  /\ calls[p].pc \in {"bet1", "bet2"}
  /\ calls'[p].pc = "done"
  /\ Get(calls'[p].result).ok

\* C1: for sequential calls on one instance, whatever expectedNonce the
\* server declares in a conflict, every submission answered with success
\* carries a token strictly greater than the token of every earlier
\* submission of the instance that was answered with success.
C1_AcceptedTokensIncrease ==
  [][\A p \in Procs :
       Accepted(p) => (maxOk = Null \/ calls[p].body.nonce > Get(maxOk))]_vars

\* C2: when the first submit of a placeBet call is rejected with
\* expectedNonce = E, set(E) is called and exactly one resubmission is made,
\* carrying E+1; a rejection of the resubmission, conflict or not, is thrown
\* to the caller and there is no third submission.
C2_OneResubmission ==
  \A p \in Procs :
    LET c == calls[p]
        ans == BetAnswers(c)
    IN /\ Len(Bets(c)) <= 2
       /\ (Len(ans) >= 1 /\ Conflict(ans[1])) =>
            /\ c.resets = <<Get(ans[1].expectedNonce)>>
            /\ Len(Bets(c)) = 2
            /\ Bets(c)[2].body.nonce = Get(ans[1].expectedNonce) + 1
       /\ (Len(ans) = 2 /\ ans[2].kind # "ok") =>
            /\ c.pc = "done"
            /\ c.result = Rethrown(ans[2])

\* a call whose first submit and whose resubmission were both rejected
\* with an expectedNonce
C2_Witness ==
  \E p \in Procs :
    LET ans == BetAnswers(calls[p])
    IN /\ Len(ans) = 2
       /\ Conflict(ans[1])
       /\ Conflict(ans[2])
       /\ Len(Bets(calls[p])) = 2
       /\ calls[p].pc = "done"

\* C3: a rejection of the submit that carries no expectedNonce is thrown to
\* the caller as it is: that placeBet call made exactly one submit request
\* and never called set().
C3_OtherErrorsSurface ==
  \A p \in Procs :
    LET c == calls[p]
        ans == BetAnswers(c)
    IN (Len(ans) >= 1 /\ ans[1].kind # "ok" /\ ~Conflict(ans[1])) =>
         /\ c.pc = "done"
         /\ c.result = Rethrown(ans[1])
         /\ Len(Bets(c)) = 1
         /\ c.resets = <<>>

\* a call whose only submit was rejected by an HTTP error without
\* expectedNonce
C3_Witness ==
  \E p \in Procs :
    LET ans == BetAnswers(calls[p])
    IN /\ Len(ans) = 1
       /\ ans[1].kind = "http"
       /\ ans[1].expectedNonce = Null
       /\ calls[p].pc = "done"

\* p enters placeBet in this step, directly or from pickAndBet
EntersPlaceBet(p) ==
  /\ \/ ~Running(p) /\ ncalls' # ncalls
     \/ calls[p].pc = "odds" /\ calls'[p].pc # "odds"
  /\ calls'[p].pb # Null

\* text t is undefined, empty, blank, or shorter than 20 characters once
\* the blanks around it are removed
Invalid(t) == t = Null \/ Len(Trim(Get(t))) < MIN_LENGTH

ValidationErrors ==
  {Thrown("Commentary is required", NoResp), Thrown("Commentary too short", NoResp)}

RealBalanceError == Thrown("Agents cannot use REAL balance", NoResp)

\* C4: a placeBet call whose commentary is undefined, empty, blank or has
\* fewer than 20 characters once trimmed ends by throwing the validation
\* error, sends no submit request, and leaves the manager's in-memory value
\* and its file as they were.
C4_InvalidCommentaryStops ==
  [][\A p \in Procs :
       (EntersPlaceBet(p) /\ Invalid(Get(calls'[p].pb).commentary)) =>
         /\ calls'[p].pc = "done"
         /\ calls'[p].result \in ValidationErrors
         /\ Bets(calls'[p]) = <<>>
         /\ value' = value
         /\ file' = file]_vars

\* a placeBet call with a nineteen-character commentary inside blanks has
\* ended, on a manager that earlier calls had advanced
C4_Witness ==
  \E p \in Procs :
    /\ calls[p].op = "placeBet"
    /\ calls[p].pc = "done"
    /\ calls[p].pb # Null
    /\ Get(calls[p].pb).commentary # Null
    /\ Len(Get(Get(calls[p].pb).commentary)) > MIN_LENGTH
    /\ Invalid(Get(calls[p].pb).commentary)
    /\ calls[p].result = Thrown("Commentary too short", NoResp)
    /\ value # Null

\* C5: a placeBet call with balanceType REAL ends by throwing before the
\* request is built: it sends nothing and leaves the manager as it was;
\* and no submit request with balanceType REAL is ever on the wire.
C5_RealBalanceRejected ==
  [][/\ \A p \in Procs :
          (EntersPlaceBet(p) /\ Get(calls'[p].pb).balanceType = "REAL") =>
            /\ calls'[p].pc = "done"
            /\ ~Get(calls'[p].result).ok
            /\ calls'[p].body = NoBody
            /\ Bets(calls'[p]) = <<>>
            /\ value' = value
            /\ file' = file
     /\ \A p \in Procs : \A i \in DOMAIN calls'[p].sent :
          calls'[p].sent[i].body.balanceType # "REAL"]_vars

\* a placeBet call with a valid commentary and balanceType REAL has been
\* rejected, on a manager that earlier calls had advanced
C5_Witness ==
  \E p \in Procs :
    /\ calls[p].op = "placeBet"
    /\ calls[p].pc = "done"
    /\ calls[p].pb # Null
    /\ Get(calls[p].pb).balanceType = "REAL"
    /\ ~Invalid(Get(calls[p].pb).commentary)
    /\ calls[p].result = RealBalanceError
    /\ value # Null

\* call record c is a pickAndBet call that ended with the error of the
\* commentary validation or of the balance type check
FailedValidation(c) ==
  /\ c.op = "pickAndBet"
  /\ c.pc = "done"
  /\ c.result \in ValidationErrors \cup {RealBalanceError}

\* C6 as stated: a pickAndBet call that fails on the commentary validation
\* or on the REAL balance type has made no network request at all, neither
\* the fetch of the grids nor a submit.
C6_NoRequestAtAll ==
  \A p \in Procs : FailedValidation(calls[p]) => calls[p].sent = <<>>

\* C6, amended: a pickAndBet call that fails on the commentary validation
\* or on the REAL balance type has made no submit request; the one request
\* it made is the fetch of the grids, which precedes both checks.
C6_OnlyTheFetch ==
  \A p \in Procs :
    FailedValidation(calls[p]) =>
      /\ calls[p].sent = <<OddsRequest(calls[p].args.asset)>>
      /\ Len(calls[p].resps) = 1
      /\ calls[p].body = NoBody

\* a pickAndBet call with balanceType REAL and a valid commentary has been
\* rejected after grids were fetched and one was picked
C6_Witness ==
  \E p \in Procs :
    /\ FailedValidation(calls[p])
    /\ calls[p].result = RealBalanceError
    /\ calls[p].picks = 1
    /\ calls[p].sent # <<>>

\* r is an answer to the fetch of the grids without grids: the list is
\* missing or empty
NoGrids(r) == r.path = "/odds" /\ r.kind = "ok" /\ r.ngrids \in {Null, Some(0)}

\* C7: when getOdds resolves with a missing or empty list of grids,
\* pickAndBet throws at once: the fetch is not repeated, no strategy is
\* invoked, placeBet is not entered, nothing is submitted and the manager
\* is left as it was.
C7_NoGridsEndsTheCall ==
  [][\A p \in Procs :
       (/\ calls[p].pc = "odds"
        /\ calls'[p] # calls[p]
        /\ NoGrids(calls'[p].resps[Len(calls'[p].resps)])) =>
         /\ calls'[p].pc = "done"
         /\ calls'[p].result = Thrown("No grids available for asset", NoResp)
         /\ calls'[p].sent = <<OddsRequest(calls[p].args.asset)>>
         /\ calls'[p].picks = 0
         /\ calls'[p].pb = Null
         /\ value' = value
         /\ file' = file]_vars

\* a pickAndBet call has ended on a response without a list of grids, on a
\* manager that earlier calls had advanced
C7_Witness ==
  \E p \in Procs :
    /\ calls[p].op = "pickAndBet"
    /\ calls[p].pc = "done"
    /\ Len(calls[p].resps) = 1
    /\ NoGrids(calls[p].resps[1])
    /\ calls[p].resps[1].ngrids = Null
    /\ value # Null

\* p takes a token on entering placeBet in this step
TakesToken(p) == EntersPlaceBet(p) /\ calls'[p].body # NoBody

\* p resubmits in this step
Resubmits(p) == calls[p].pc = "bet1" /\ calls'[p].pc = "bet2"

\* the last request call record c has put on the wire
LastSent(c) == c.sent[Len(c.sent)]

\* the file does not hold the in-memory value: a write has failed
Stale == value # Null /\ file # Some(ToStr(Get(value)))

\* C10: when the file does not hold the token after next() (the write
\* failed), the token is the in-memory value all the same and placeBet
\* goes on to submit it, the only error possible being the missing API
\* key; the same holds for the set() and next() of the conflict recovery;
\* and a call made while the file is stale takes the in-memory value + 1.
C10_WriteFailureIsSilent ==
  [][\A p \in Procs :
       /\ (TakesToken(p) /\ file' # Some(ToStr(calls'[p].body.nonce))) =>
            /\ file' = file
            /\ value' = Some(calls'[p].body.nonce)
            /\ hasKey => /\ calls'[p].pc = "bet1"
                         /\ Bets(calls'[p]) = <<BetRequest(calls'[p].body)>>
            /\ ~hasKey => calls'[p].result = Thrown("API key required", NoResp)
       /\ (TakesToken(p) /\ Stale) => calls'[p].body.nonce = Get(value) + 1
       /\ (Resubmits(p) /\ file' # Some(ToStr(calls'[p].body.nonce))) =>
            /\ value' = Some(calls'[p].body.nonce)
            /\ calls'[p].body.nonce = calls'[p].resets[1] + 1
            /\ LastSent(calls'[p]) = BetRequest(calls'[p].body)]_vars

\* a second placeBet call is awaiting its submit with the token after the
\* accepted one, no write having succeeded yet
C10_Witness ==
  \E p \in Procs :
    /\ calls[p].pc = "bet1"
    /\ file = NoFile
    /\ maxOk # Null
    /\ calls[p].body.nonce = Get(maxOk) + 1
    /\ value = Some(calls[p].body.nonce)
    /\ LastSent(calls[p]) = BetRequest(calls[p].body)

----------------------------------------------------------------------------
(* Properties of NonceManager, checked under NonceSpec *)

\* the file as operation i of the manager left it
FileAfter(i) == IF i < Len(nmlog) THEN nmlog[i + 1].before ELSE file

\* the number of next() calls among the first i operations
Nexts(i) == Cardinality({j \in 1..i : nmlog[j].op = "next"})

\* the manager found no file and set() has not been called on it
Fresh ==
  /\ nmlog # <<>>
  /\ nmlog[1].before = NoFile
  /\ \A i \in DOMAIN nmlog : nmlog[i].op # "set"

\* the clock reading of the first operation
Seed == nmlog[1].now

\* C8 as stated: on a manager that found no file and on which set() is not
\* called, the seed is the clock reading of the first operation, the k-th
\* next() returns seed + k, and the file holds each returned value when it
\* is returned.
C8_SeedPlusK_Persisted ==
  Fresh =>
    \A i \in DOMAIN nmlog :
      /\ nmlog[i].ret = Some(Seed + Nexts(i))
      /\ nmlog[i].op = "next" => FileAfter(i) = Some(ToStr(Get(nmlog[i].ret)))

\* C8, amended: on a manager that found no file and on which set() is not
\* called, the seed is the clock reading of the first operation, load()
\* returns seed + the number of next() made and the k-th next() returns
\* seed + k; the file holds the returned value when the write succeeded and
\* is left as it was when the write failed.
C8_SeedPlusK ==
  Fresh =>
    \A i \in DOMAIN nmlog :
      /\ nmlog[i].ret = Some(Seed + Nexts(i))
      /\ nmlog[i].op = "next" =>
           FileAfter(i) = IF nmlog[i].wrote THEN Some(ToStr(Get(nmlog[i].ret)))
                          ELSE nmlog[i].before

\* two consecutive next() on a manager that found no file, the first of
\* them written and the second not
C8_Witness ==
  /\ Fresh
  /\ Len(nmlog) >= 2
  /\ nmlog[1].op = "next" /\ nmlog[1].wrote
  /\ nmlog[2].op = "next" /\ ~nmlog[2].wrote
  /\ nmlog[2].ret = Some(Seed + 2)
  /\ file = Some(ToStr(Seed + 1))

\* the values a file can hold
Persistable == 0..(MaxClock + MaxSet + MaxOps * MaxInstances)

\* C9: for every v >= 0, the first load() of a manager created on a path
\* whose file holds v, written by set(v) or next(), returns v.
C9_LoadReturnsPersisted ==
  \A v \in Persistable :
    (/\ nmlog # <<>>
     /\ nmlog[1].op = "load"
     /\ nmlog[1].before = Some(ToStr(v))) => nmlog[1].ret = Some(v)

\* C11: every next() or set() whose write failed has logged or reported
\* the failure.
C11_FailedWriteReported ==
  \A i \in DOMAIN nmlog :
    (nmlog[i].op \in {"next", "set"} /\ ~nmlog[i].wrote) => nmlog[i].reports # <<>>

\* C12: every submit request put on the wire by placeBet or pickAndBet
\* carries a balanceType that is TEST or BONUS.
C12_OnlyTestOrBonus ==
  \A p \in Procs : \A i \in DOMAIN calls[p].sent :
    calls[p].sent[i].path = "/bet" =>
      calls[p].sent[i].body.balanceType \in {"TEST", "BONUS"}

\* the GET /odds requests call record c has put on the wire
Fetches(c) == SelectSeq(c.sent, LAMBDA q : q.path = "/odds")

\* call record c has its terminal outcome: a value returned or an error thrown
Ended(c) == c.pc = "done" /\ c.result # Null

\* call record c has made at most two submit requests, two only after a
\* first one rejected with an expectedNonce
AtMostTwoSubmits(c) ==
  /\ Len(Bets(c)) <= 2
  /\ Len(Bets(c)) = 2 => (BetAnswers(c) # <<>> /\ Conflict(BetAnswers(c)[1]))

\* C13 as stated: with every request eventually answered, every pickAndBet
\* call ends by returning or throwing, after exactly one fetch of the grids
\* and at most two submit requests, two only when the first was rejected
\* with an expectedNonce.
C13_EndsAfterOneFetch ==
  /\ [](\A p \in Procs :
          (calls[p].op = "pickAndBet" /\ Ended(calls[p])) =>
            /\ Len(Fetches(calls[p])) = 1
            /\ AtMostTwoSubmits(calls[p]))
  /\ \A p \in Procs :
       (calls[p].op = "pickAndBet" /\ Running(p)) ~> Ended(calls[p])

\* C13, amended: with every request eventually answered, every pickAndBet
\* call ends by returning or throwing, after at most two submit requests,
\* two only when the first was rejected with an expectedNonce, and after
\* exactly one fetch of the grids when the agent has an API key; without
\* an API key the call throws before it makes any request.
C13_EndsAfterOneFetchWithKey ==
  /\ [](\A p \in Procs :
          calls[p].op = "pickAndBet" =>
            /\ Len(Fetches(calls[p])) = IF hasKey THEN 1 ELSE 0
            /\ AtMostTwoSubmits(calls[p])
            /\ ~hasKey => (Ended(calls[p]) /\ calls[p].sent = <<>>
                           /\ calls[p].result = Thrown("API key required", NoResp)))
  /\ \A p \in Procs :
       (calls[p].op = "pickAndBet" /\ Running(p)) ~> Ended(calls[p])

\* a pickAndBet call has returned after one fetch and two submit requests,
\* the first of them rejected with an expectedNonce
C13_Witness ==
  \E p \in Procs :
    /\ calls[p].op = "pickAndBet"
    /\ Ended(calls[p])
    /\ Get(calls[p].result).ok
    /\ Len(Fetches(calls[p])) = 1
    /\ Len(Bets(calls[p])) = 2
    /\ Conflict(BetAnswers(calls[p])[1])

----------------------------------------------------------------------------
(* Properties of the exported functions, checked under LibSpec *)

\* what strategy name makes as small (balanced, favorite) or as large
\* (underdog, value) as it can, for grid g
Objective(name, g, currentPrice) ==
  CASE name = S_balanced -> Diff50(ParseFloat(g.impliedProbability))
    [] name = S_underdog -> ParseFloat(g.odds)
    [] name = S_favorite -> MidDist(ParseFloat(g.strikePriceMin),
                                    ParseFloat(g.strikePriceMax), Price(currentPrice))
    [] name = S_value -> Times(ParseFloat(g.odds), ParseFloat(g.impliedProbability))

\* objective a is strictly better than b for strategy name
Better(name, a, b) ==
  IF name \in {S_balanced, S_favorite} THEN Lt(a, b) ELSE Lt(b, a)

\* pickGrid has been called on a list that is not empty with the name of
\* a built-in strategy
PickedBuiltIn ==
  /\ libcall.fn = "pickGrid"
  /\ libcall.done
  /\ Get(libcall.arg.grids) # <<>>
  /\ ~libcall.arg.strategy.fn
  /\ libcall.arg.strategy.id \in StrategyNames

\* the objective of grid j of the list pickGrid was called with
ObjectiveAt(j) ==
  Objective(libcall.arg.strategy.id, Get(libcall.arg.grids)[j], libcall.arg.currentPrice)

\* C14: on a list that is not empty, each built-in strategy returns a grid
\* of the list, and no grid of the list has a strictly better objective
\* (|impliedProbability - 0.5| smaller, odds larger, |midpoint - price|
\* smaller, odds x impliedProbability larger).
C14_StrategyReturnsOptimum ==
  PickedBuiltIn =>
    /\ libcall.out.err = ""
    /\ ~libcall.out.other
    /\ libcall.out.idx \in 1..Len(Get(libcall.arg.grids))
    /\ \A j \in 1..Len(Get(libcall.arg.grids)) :
         ~Better(libcall.arg.strategy.id, ObjectiveAt(j), ObjectiveAt(libcall.out.idx))

\* favorite has returned the last of three grids, the only one nearest to
\* the price
C14_Witness ==
  /\ PickedBuiltIn
  /\ libcall.arg.strategy.id = S_favorite
  /\ libcall.arg.currentPrice # Null
  /\ Len(Get(libcall.arg.grids)) = 3
  /\ libcall.out.idx = 3
  /\ \A j \in 1..2 : Lt(ObjectiveAt(3), ObjectiveAt(j))

C16_UnknownNameThrows ==
  (/\ libcall.fn = "pickGrid"
   /\ libcall.done
   /\ Get(libcall.arg.grids) # <<>>
   /\ ~libcall.arg.strategy.fn
   /\ libcall.arg.strategy.id \notin {S_balanced, S_underdog, S_favorite, S_value}) =>
     /\ libcall.out.err = "Unknown strategy"
     /\ libcall.out.available = <<S_balanced, S_underdog, S_favorite, S_value>>
     /\ libcall.out.idx = 0
     /\ ~libcall.out.other

\* C17: validate(text) is valid exactly when the text, without the blanks
\* around it, has at least 20 characters: undefined, empty, blank and
\* shorter texts fail, and no text fails for being long.
C17_ValidIffTwentyTrimmed ==
  (libcall.fn = "validate" /\ libcall.done) =>
    (libcall.out.valid <=> (libcall.arg.commentary # Null /\ libcall.arg.core >= 20))

\* a text of more than 500 characters inside blanks has been found valid
C17_Witness ==
  /\ libcall.fn = "validate"
  /\ libcall.done
  /\ libcall.arg.core > 500
  /\ Len(Get(libcall.arg.commentary)) > libcall.arg.core + 1
  /\ libcall.out.valid

\* the context value o, or ? when the context has none
ValueOrQ(o) == IF o = Null THEN <<"?">> ELSE Get(o)

\* what piece q of a template stands for under context cx
Stands(q, cx) ==
  CASE q = Marker(T_round) -> ValueOrQ(cx.round)
    [] q = Marker(T_price) -> ValueOrQ(cx.price)
    [] q = Marker(T_asset) -> ValueOrQ(cx.asset)
    [] q = Marker(T_odds) -> ValueOrQ(cx.odds)
    [] q = Marker(T_gridLevel) -> ValueOrQ(cx.gridLevel)
    [] q = Marker(T_strategy) -> ValueOrQ(cx.strategy)
    [] OTHER -> q

\* C18: renderTemplate replaces every occurrence of each of the six
\* markers by its context value, or by ? when the context has none, leaves
\* every other marker and all other text as it is, and returns the first
\* 500 characters of that; "{asset} at {price}" under {asset: "BTC"}
\* gives "BTC at ?".
C18_MarkersReplaced ==
  (libcall.fn = "renderTemplate" /\ libcall.done) =>
    /\ Len(libcall.out) <= 500
    /\ libcall.out =
         Substring0(Flatten([i \in DOMAIN libcall.arg.pieces |->
                               Stands(libcall.arg.pieces[i], libcall.arg.context)]), 500)
    /\ (/\ libcall.arg.pieces = <<Marker(T_asset), Txt_at, Marker(T_price)>>
        /\ libcall.arg.context = [NoContext EXCEPT !.asset = Some(Txt_BTC)]) =>
         libcall.out = <<"B", "T", "C", " ", "a", "t", " ", "?">>

\* the points for a trimmed length of n: 10, 20, 30, 40, 50 from 0, 40,
\* 60, 100, 200
LengthPoints(n) ==
  CASE n < 40 -> 10
    [] n \in 40..59 -> 20
    [] n \in 60..99 -> 30
    [] n \in 100..199 -> 40
    [] n >= 200 -> 50

\* the points for n different lowercased words: 0, 10, 20, 25 from 0, 10,
\* 15, 25
DiversityPoints(n) ==
  CASE n < 10 -> 0
    [] n \in 10..14 -> 10
    [] n \in 15..24 -> 20
    [] n >= 25 -> 25

\* the points for n technical terms: 0, 5, 15, 25 for 0, 1, 2, 4
VocabularyPoints(n) ==
  CASE n = 0 -> 0
    [] n = 1 -> 5
    [] n \in 2..3 -> 15
    [] n >= 4 -> 25

\* the sum of the three components for the text qualityScore was called
\* with, at most 100
ClampedSum ==
  Min(100, LengthPoints(libcall.arg.length) + DiversityPoints(libcall.arg.unique)
           + VocabularyPoints(libcall.arg.terms))

\* the text and the longer text have the same words
SameWords == libcall.arg.repeats > 0

\* C19 as stated: for every text, qualityScore is an integer from 0 to 100,
\* the sum of the length, diversity and vocabulary points clamped to 100,
\* and it does not decrease when the text gets longer with the same words.
C19_ScoreIsClampedSum ==
  (libcall.fn = "qualityScore" /\ libcall.done) =>
    /\ libcall.out.score \in 0..100
    /\ libcall.out.score = ClampedSum
    /\ SameWords => libcall.out.score <= libcall.out.longer

\* C19, amended: qualityScore is an integer from 0 to 100; for the empty
\* text it is 0, for every other text the sum of the length, diversity and
\* vocabulary points clamped to 100; and it does not decrease when the
\* text gets longer with the same words.
C19_ScoreIsClampedSumUnlessEmpty ==
  (libcall.fn = "qualityScore" /\ libcall.done) =>
    /\ libcall.out.score \in 0..100
    /\ libcall.out.score = IF Get(libcall.arg.commentary) = <<>> THEN 0 ELSE ClampedSum
    /\ SameWords => libcall.out.score <= libcall.out.longer

\* a text of fifteen different words, two of them technical terms, scored
\* 20 + 20 + 15, and 40 + 20 + 15 once it was made longer
C19_Witness ==
  /\ libcall.fn = "qualityScore"
  /\ libcall.done
  /\ libcall.arg.unique = 15
  /\ libcall.arg.terms = 2
  /\ libcall.arg.repeats > 0
  /\ libcall.arg.length \in 40..59
  /\ libcall.out.score = 55
  /\ libcall.out.longer = 75

\* the tier the thresholds 40, 60, 75 and 90 give score n
TierOf(n) ==
  CASE n < 40 -> Null
    [] n \in 40..59 -> Some("Bronze")
    [] n \in 60..74 -> Some("Silver")
    [] n \in 75..89 -> Some("Gold")
    [] n >= 90 -> Some("Diamond")

\* C20: badgeTier gives every score from 0 to 100 exactly one tier: none
\* below 40, Bronze from 40 to 59, Silver from 60 to 74, Gold from 75 to
\* 89, Diamond from 90 on.
C20_TierThresholds ==
  (libcall.fn = "badgeTier" /\ libcall.done) =>
    /\ libcall.out = TierOf(libcall.arg.score)
    /\ libcall.arg.score = 39 => libcall.out = Null
    /\ libcall.arg.score \in {40, 59} => libcall.out = Some("Bronze")
    /\ libcall.arg.score = 60 => libcall.out = Some("Silver")
    /\ libcall.arg.score = 89 => libcall.out = Some("Gold")
    /\ libcall.arg.score = 90 => libcall.out = Some("Diamond")

\* badgeTier has returned Bronze for 40
C20_Witness ==
  /\ libcall.fn = "badgeTier"
  /\ libcall.done
  /\ libcall.arg.score = 40
  /\ libcall.out = Some("Bronze")

----------------------------------------------------------------------------
(* Settlement windows of pickAndBet                                        *)

\* the buckets the fetch offers
Offered == {Grid1, Grid2}

\* bucket g expires in the settlement window arguments a ask for: the
\* soonest expiry for timeSlot 'next', the latest for 'far', from minSec to
\* maxSec seconds ahead for expiryRange
InWindow(a, g) ==
  /\ a.timeSlot = Some("next") => \A h \in Offered : g.expiryAt <= h.expiryAt
  /\ a.timeSlot = Some("far") => \A h \in Offered : g.expiryAt >= h.expiryAt
  /\ a.expiryRange # Null =>
       /\ g.expiryAt >= Get(a.expiryRange)[1]
       /\ g.expiryAt <= Get(a.expiryRange)[2]

\* C21: a pickAndBet call made with timeSlot or expiryRange submits only a
\* bucket whose expiry is in the settlement window asked for.
C21_SubmitsInsideWindow ==
  \A p \in Procs : \A i \in DOMAIN calls[p].sent :
    (calls[p].op = "pickAndBet" /\ calls[p].sent[i].path = "/bet") =>
      \A g \in Offered :
        g.gridIdStr = calls[p].sent[i].body.gridId => InWindow(calls[p].args, g)

----------------------------------------------------------------------------
(* Concurrent calls on one agent instance: a call may start while another  *)
(* awaits a response; the stretches between awaits run one at a time.      *)

\* the arguments of the concurrent calls: a commentary of 20 characters
\* after a blank or none, on the TEST balance
ConcCommentaries == {Null, Some(<<" ">> \o Text20)}

ConcPlaceBetArgs ==
  {a \in PlaceBetArgs : a.balanceType = "TEST" /\ a.commentary \in ConcCommentaries}

ConcPickAndBetArgs ==
  {a \in PickAndBetArgs :
     /\ a.balanceType = "TEST"
     /\ a.commentary \in ConcCommentaries
     /\ a.strategy = Named(S_balanced)
     /\ a.timeSlot = Null
     /\ a.expiryRange = Null}

CallPlaceBet == \E p \in Procs : PlaceBetWith(p, ConcPlaceBetArgs)

CallPickAndBet == \E p \in Procs : PickAndBetWith(p, ConcPickAndBetArgs)

ConcNext == CallPlaceBet \/ CallPickAndBet \/ OddsSettles \/ BetSettles \/ RetrySettles

ConcSpec == Init /\ [][ConcNext]_vars

\* the i-th request of caller p is a submit request
Submit(p, i) == i \in DOMAIN calls[p].sent /\ calls[p].sent[i].path = "/bet"

\* C22: no two submit requests sent by the instance, resubmissions included,
\* carry the same token, however two concurrent calls interleave.
C22_NoTokenTwice ==
  \A p \in Procs, q \in Procs :
    \A i \in DOMAIN calls[p].sent, j \in DOMAIN calls[q].sent :
      (Submit(p, i) /\ Submit(q, j) /\ <<p, i>> # <<q, j>>) =>
        calls[p].sent[i].body.nonce # calls[q].sent[j].body.nonce

----------------------------------------------------------------------------
(* The commentary of a submit request                                      *)

\* C23: the commentary carried by every submit request, of a placeBet call
\* or of a pickAndBet call, is 20 to 500 characters long once trimmed.
C23_SentCommentaryInRange ==
  \A p \in Procs : \A i \in DOMAIN calls[p].sent :
    Submit(p, i) =>
      /\ Len(Trim(calls[p].sent[i].body.commentary)) >= MIN_LENGTH
      /\ Len(Trim(calls[p].sent[i].body.commentary)) <= MAX_LENGTH

----------------------------------------------------------------------------
(* Tokens of consecutive calls                                             *)

\* the step is the first submission of the call of p
FirstSubmit(p) == calls[p].pc # "bet1" /\ calls'[p].pc = "bet1"

\* C24: in sequential use of one instance, the first token of every call
\* that reaches submission is one plus the last token the instance sent
\* before, however the call before it ended.
C24_FirstTokenFollowsLastSent ==
  [][\A p \in Procs :
       (FirstSubmit(p) /\ lastSent # Null) =>
         /\ calls'[p].body.nonce = Get(lastSent) + 1
         /\ calls'[p].sent[Len(calls'[p].sent)] = BetRequest(calls'[p].body)
         /\ lastSent' = Some(Get(lastSent) + 1)]_vars

\* the second call has submitted token 2 although the first call's first
\* token was 3 or more: the first call resubmitted token 1 after a conflict
\* that declared 0, and no submission has succeeded
C24_Witness ==
  /\ ncalls = 2
  /\ calls[1].pc = "bet1"
  /\ calls[1].body.nonce = 2
  /\ lastSent = Some(2)
  /\ maxOk = Null

----------------------------------------------------------------------------
(* The resubmitted request                                                 *)

\* the last request caller p has sent
LastRequest(c) == c.sent[Len(c.sent)]

\* C25: the request resubmitted in a conflict recovery is the first request
\* of the call with another nonce: gridId, amount, balanceType, commentary
\* and strategy are the same, and the call fetches no buckets and invokes
\* no strategy again.
C25_ResubmissionChangesNonceOnly ==
  [][\A p \in Procs :
       (calls[p].pc = "bet1" /\ calls'[p].pc = "bet2") =>
         /\ calls'[p].sent = Append(calls[p].sent, LastRequest(calls'[p]))
         /\ LastRequest(calls'[p]).path = "/bet"
         /\ LastRequest(calls[p]).path = "/bet"
         /\ [LastRequest(calls'[p]).body EXCEPT !.nonce = LastRequest(calls[p]).body.nonce]
              = LastRequest(calls[p]).body
         /\ calls'[p].picks = calls[p].picks
         /\ calls'[p].pb = calls[p].pb]_vars

\* a pickAndBet call has resubmitted with another nonce the request it had
\* built from the bucket its strategy chose
C25_Witness ==
  \E p \in Procs :
    /\ calls[p].op = "pickAndBet"
    /\ calls[p].pc = "bet2"
    /\ calls[p].picks = 1
    /\ Len(calls[p].sent) = 3
    /\ calls[p].sent[3].body.nonce # calls[p].sent[2].body.nonce
    /\ calls[p].sent[3].body.strategy = Some(S_balanced)
    /\ calls[p].sent[3].body.gridId = Grid1.gridIdStr

====
